---------------------------- MODULE Spec2Model ----------------------------
(***************************************************************************)
(* Model of the EONET proxy backend: the retrying upstream client          *)
(* (nasa/client.py), the payload normalizer (nasa/normalizer.py) and the   *)
(* four proxy routes (nasa/routes.py).                                     *)
(*                                                                         *)
(* JSON values are tagged records.  A Python str is a sequence of tokens   *)
(* (substrings), so that "" is <<>> and str.replace / fromisoformat /      *)
(* isoformat are computed on the text rather than assumed.                 *)
(***************************************************************************)
EXTENDS Integers, Sequences, FiniteSets, TLC

VARIABLES
    retries,      \* EONETClient.retries
    backoff,      \* EONETClient.backoff, in tenths of a second
    route,        \* which route handler serves the request
    pc,           \* position of the request: "loop", "returned", "raised", "escaped", "responded"
    attempt,      \* loop variable of _get: the attempt about to run / that ran last
    last_err,     \* _get's last_err: the failure of the latest failed attempt, or NoErr
    log,          \* observable trace of _get: GETs issued and sleeps taken, in order
    result,       \* what _get produced: parsed JSON, or the exception it ended with
    response,     \* what the route handler produced
    payload,      \* argument of normalize_events (pure-function specification)
    normalized    \* its outcome

vars == <<retries, backoff, route, pc, attempt, last_err, log, result, response,
          payload, normalized>>

-----------------------------------------------------------------------------
(* Bounds of the model *)

MaxRetries == 3
MaxBackoff == 2
MaxEvents == 2

-----------------------------------------------------------------------------
(* JSON / Python values *)

Null == [t |-> "null"]
Str(s) == [t |-> "str", s |-> s]
Num(n) == [t |-> "num", n |-> n]
Bool(b) == [t |-> "bool", b |-> b]
List(xs) == [t |-> "list", items |-> xs]
Map(f) == [t |-> "map", m |-> f]
EmptyMap == [k \in {} |-> Null]

\* Outcome of a Python call: a returned value or a raised exception.
Ok(v) == [ok |-> TRUE, val |-> v]
Raise(e) == [ok |-> FALSE, exc |-> e]

\* bool(v)
Truthy(v) ==
    CASE v.t = "null" -> FALSE
      [] v.t = "str"  -> v.s # <<>>
      [] v.t = "num"  -> v.n # 0
      [] v.t = "bool" -> v.b
      [] v.t = "list" -> v.items # <<>>
      [] v.t = "map"  -> DOMAIN v.m # {}

\* a or b
PyOr(a, b) == IF Truthy(a) THEN a ELSE b

\* d.get(k, default) on a value that is a mapping
Get(d, k, default) == IF k \in DOMAIN d.m THEN d.m[k] ELSE default

\* sequence of the elements of a finite set of strings, in some fixed order
RECURSIVE SetToSeq(_)
SetToSeq(S) ==
    IF S = {} THEN <<>>
    ELSE LET x == CHOOSE y \in S : TRUE IN <<x>> \o SetToSeq(S \ {x})

\* iter(v): the elements a for-loop visits, or TypeError
Iter(v) ==
    CASE v.t = "list" -> Ok(v.items)
      [] v.t = "str"  -> Ok([i \in 1..Len(v.s) |-> Str(<<v.s[i]>>)])
      [] v.t = "map"  -> Ok([i \in 1..Cardinality(DOMAIN v.m) |->
                                Str(<<SetToSeq(DOMAIN v.m)[i]>>)])
      [] OTHER        -> Raise("TypeError")

Digit(n) ==
    CASE n = 0 -> "0" [] n = 1 -> "1" [] n = 2 -> "2" [] n = 3 -> "3" [] n = 4 -> "4"
      [] n = 5 -> "5" [] n = 6 -> "6" [] n = 7 -> "7" [] n = 8 -> "8" [] n = 9 -> "9"

RECURSIVE Digits(_)
Digits(n) == IF n < 10 THEN <<Digit(n)>> ELSE Digits(n \div 10) \o <<Digit(n % 10)>>

\* str(v)
PyStr(v) ==
    CASE v.t = "str"  -> v.s
      [] v.t = "num"  -> IF v.n < 0 THEN <<"-">> \o Digits(-v.n) ELSE Digits(v.n)
      [] v.t = "null" -> <<"None">>
      [] v.t = "bool" -> IF v.b THEN <<"True">> ELSE <<"False">>
      [] v.t = "list" -> IF v.items = <<>> THEN <<"[", "]">> ELSE <<"[", "...", "]">>
      [] v.t = "map"  -> IF DOMAIN v.m = {} THEN <<"{", "}">> ELSE <<"{", "...", "}">>

-----------------------------------------------------------------------------
(* normalizer.py: _try_parse_dt *)

Dates == {"2024-01-01"}
Times == {"00:00:00"}
Offsets == {"+00:00"}

\* value.replace("Z", "+00:00")
ReplaceZ(s) == [i \in 1..Len(s) |-> IF s[i] = "Z" THEN "+00:00" ELSE s[i]]

\* datetime.fromisoformat accepts YYYY-MM-DD[*HH:MM:SS[+HH:MM]], any one-character separator
IsoParseable(s) ==
    \/ Len(s) = 1 /\ s[1] \in Dates
    \/ Len(s) = 3 /\ s[1] \in Dates /\ s[2] \in {"T", " "} /\ s[3] \in Times
    \/ Len(s) = 4 /\ s[1] \in Dates /\ s[2] \in {"T", " "} /\ s[3] \in Times
                  /\ s[4] \in Offsets

\* datetime.fromisoformat(s).isoformat(): the separator is rendered as "T", a bare
\* date gets a midnight time
IsoFormat(s) ==
    IF Len(s) = 1 THEN <<s[1], "T", "00:00:00">>
    ELSE [i \in 1..Len(s) |-> IF i = 2 THEN "T" ELSE s[i]]

\* variant: the "if not value" guard left out
TryParseDtNoFalsyGuard(value) ==
    IF value.t # "str" THEN value
    ELSE IF IsoParseable(ReplaceZ(value.s)) THEN Str(IsoFormat(ReplaceZ(value.s)))
    ELSE value

_try_parse_dt(value) ==
    IF ~Truthy(value) THEN Null
    ELSE IF value.t # "str" THEN value        \* .replace raises, caught: original value
    ELSE IF IsoParseable(ReplaceZ(value.s)) THEN Str(IsoFormat(ReplaceZ(value.s)))
    ELSE value

-----------------------------------------------------------------------------
(* normalizer.py: normalize_events *)

\* variant: results gathered newest first (insert(0, x) for append(x))
CollectReversed(rs) ==
    IF \A i \in 1..Len(rs) : rs[i].ok
    THEN Ok([i \in 1..Len(rs) |-> rs[Len(rs) + 1 - i].val])
    ELSE rs[CHOOSE i \in 1..Len(rs) : ~rs[i].ok /\ \A j \in 1..(i - 1) : rs[j].ok]

\* the first exception raised by a left-to-right loop, else the list of its results
Collect(rs) ==
    IF \A i \in 1..Len(rs) : rs[i].ok
    THEN Ok([i \in 1..Len(rs) |-> rs[i].val])
    ELSE rs[CHOOSE i \in 1..Len(rs) : ~rs[i].ok /\ \A j \in 1..(i - 1) : rs[j].ok]

\* for x in (v or []): the elements visited, or TypeError
LoopItems(v) == Iter(PyOr(v, List(<<>>)))

\* x.get(...) on a value that has no .get
NoGet(x) == x.t # "map"

NormalizedCategory(c) ==
    IF NoGet(c) THEN Raise("AttributeError")
    ELSE Ok([id |-> PyStr(Get(c, "id", Str(<<>>))), title |-> Get(c, "title", Null)])

NormalizedSource(s) ==
    IF NoGet(s) THEN Raise("AttributeError")
    ELSE Ok([id |-> PyStr(Get(s, "id", Str(<<>>))), url |-> Get(s, "url", Null)])

NormalizedGeometry(g) ==
    IF NoGet(g) THEN Raise("AttributeError")
    ELSE Ok([date            |-> _try_parse_dt(Get(g, "date", Null)),
             type            |-> Get(g, "type", Null),
             coordinates     |-> Get(g, "coordinates", Null),
             magnitude_value |-> Get(g, "magnitudeValue", Null),
             magnitude_unit  |-> Get(g, "magnitudeUnit", Null)])

\* the three inner loops of an event
Categories(v) ==
    LET it == LoopItems(v)
    IN  IF ~it.ok THEN it
        ELSE Collect([i \in 1..Len(it.val) |-> NormalizedCategory(it.val[i])])

Sources(v) ==
    LET it == LoopItems(v)
    IN  IF ~it.ok THEN it
        ELSE Collect([i \in 1..Len(it.val) |-> NormalizedSource(it.val[i])])

GeomList(v) ==
    LET it == LoopItems(v)
    IN  IF ~it.ok THEN it
        ELSE Collect([i \in 1..Len(it.val) |-> NormalizedGeometry(it.val[i])])

\* status = "closed" if closed else "open"
EventStatus(closed) == IF Truthy(closed) THEN "closed" ELSE "open"

\* variant: str(ev.get("id")), the default left out
EventIdNoDefault(ev) == PyStr(Get(ev, "id", Null))

\* ev_id = str(ev.get("id", ""))
EventId(ev) == PyStr(Get(ev, "id", Str(<<>>)))

\* one iteration of the loop over raw_events
NormalizedEvent(ev) ==
    IF NoGet(ev) THEN Raise("AttributeError")
    ELSE
      LET closed     == _try_parse_dt(Get(ev, "closed", Null))
          categories == Categories(Get(ev, "categories", Null))
          sources    == Sources(Get(ev, "sources", Null))
          geom_list  == GeomList(Get(ev, "geometry", Null))
      IN  IF ~categories.ok THEN categories
          ELSE IF ~sources.ok THEN sources
          ELSE IF ~geom_list.ok THEN geom_list
          ELSE Ok([id          |-> EventId(ev),
                   title       |-> Get(ev, "title", Null),
                   description |-> Get(ev, "description", Null),
                   link        |-> Get(ev, "link", Null),
                   status      |-> EventStatus(closed),
                   closed      |-> closed,
                   categories  |-> categories.val,
                   sources     |-> sources.val,
                   geometry    |-> geom_list.val])

\* datetime.utcnow().isoformat() + "Z", for a clock reading now = <<date, time>>
GeneratedAt(now) == <<now[1], "T", now[2], "Z">>

\* the wrapper returned around the normalized events
Wrapper(eonet_payload, events, now) ==
    [source       |-> "NASA_EONET_V3",
     title        |-> Get(eonet_payload, "title", Null),
     generated_at |-> GeneratedAt(now),
     count        |-> Len(events),
     events       |-> events]

normalize_events(eonet_payload, now) ==
    IF NoGet(eonet_payload) THEN Raise("AttributeError")
    ELSE
      LET raw_events == Get(eonet_payload, "events", List(<<>>))
          it == LoopItems(raw_events)
          normalized_ == IF ~it.ok THEN it
                         ELSE Collect([i \in 1..Len(it.val) |-> NormalizedEvent(it.val[i])])
      IN  IF ~normalized_.ok THEN normalized_
          ELSE Ok(Wrapper(eonet_payload, normalized_.val, now))

-----------------------------------------------------------------------------
(* Inputs: raw upstream payloads, well formed and malformed *)

\* marks a key that the raw mapping does not have
Missing == [t |-> "missing"]

\* the JSON object holding the keys of f whose value is not Missing
Obj(f) == Map([k \in {j \in DOMAIN f : f[j] # Missing} |-> f[k]])

TsZ == Str(<<"2024-01-01", "T", "00:00:00", "Z">>)
TsSpace == Str(<<"2024-01-01", " ", "00:00:00">>)
NotADate == Str(<<"not-a-date">>)

IdOpts == {Missing, Null, Str(<<>>), Str(<<"EONET_1">>), Num(1)}

ClosedOpts == {Missing, Null, Str(<<>>), TsZ, TsSpace, NotADate, Num(0), Num(5)}

Wildfires == Obj([id |-> Str(<<"wildfires">>), title |-> Str(<<"Wildfires">>)])

CategoriesOpts ==
    {Missing, Null, List(<<>>), List(<<Wildfires>>), List(<<Obj([id |-> Num(8)])>>),
     List(<<Wildfires, Num(1)>>), Num(5), Str(<<"a", "b">>)}

InciWeb == Obj([id |-> Str(<<"InciWeb">>), url |-> Str(<<"http://x">>)])

SourcesOpts == {Missing, List(<<InciWeb>>), List(<<Null>>), Bool(TRUE)}

Point ==
    Obj([date |-> TsZ, type |-> Str(<<"Point">>), coordinates |-> List(<<Num(1), Num(2)>>)])

BadDatePoint ==
    Obj([date |-> NotADate, magnitudeValue |-> Num(3), magnitudeUnit |-> Str(<<"kts">>)])

GeometryOpts == {Missing, List(<<Point, BadDatePoint>>), Point, List(<<List(<<>>)>>)}

RawEvent(id, closed, categories, sources, geometry) ==
    Obj([id |-> id, title |-> Str(<<"Fire A">>), closed |-> closed,
         categories |-> categories, sources |-> sources, geometry |-> geometry])

\* raw events: each field varied over its options, and elements that are no mapping
EventSamples ==
       {RawEvent(i, Null, List(<<Wildfires>>), List(<<>>), List(<<Point>>)) : i \in IdOpts}
    \cup {RawEvent(Num(1), c, Missing, Missing, Missing) : c \in ClosedOpts}
    \cup {RawEvent(Str(<<"EONET_1">>), TsZ, c, Missing, Missing) : c \in CategoriesOpts}
    \cup {RawEvent(Str(<<"EONET_2">>), Missing, Missing, s, Missing) : s \in SourcesOpts}
    \cup {RawEvent(Missing, NotADate, Missing, Missing, g) : g \in GeometryOpts}
    \cup {Null, Num(1), Map(EmptyMap)}

\* sequences over S of length at most n
SeqsUpTo(S, n) == UNION {[1..k -> S] : k \in 0..n}

EventsOpts ==
       {Missing, Null, Num(5), Str(<<"x">>), Wildfires}
    \cup {List(es) : es \in SeqsUpTo(EventSamples, MaxEvents)}

\* the arguments normalize_events is applied to: mappings, and two values that are none
Payloads ==
       {Obj([title |-> Str(<<"T">>), events |-> e]) : e \in EventsOpts}
    \cup {Obj([title |-> Missing, events |-> Missing]), List(<<>>), Null}

\* clock readings of datetime.utcnow()
Clocks == {<<"2024-01-01", "00:00:00">>, <<"2024-06-30", "12:30:00">>}

-----------------------------------------------------------------------------
(* config.py: Settings defaults; client.py: EONETClient.__init__ *)

HTTP_RETRIES == 3
\* HTTP_BACKOFF_SECONDS = 0.7; durations are counted in tenths of a second
HTTP_BACKOFF_TENTHS == 7

\* a constructor argument: <<>> is None, <<v>> is the value v
RetriesArgs == {<<>>} \cup {<<r>> : r \in -1..MaxRetries}
BackoffArgs == {<<>>} \cup {<<b>> : b \in 0..MaxBackoff}

\* self.retries = retries if retries is not None else settings.HTTP_RETRIES
InitRetries(arg) == IF arg # <<>> THEN arg[1] ELSE HTTP_RETRIES

\* self.backoff = backoff_seconds if backoff_seconds is not None else settings.HTTP_BACKOFF_SECONDS
InitBackoff(arg) == IF arg # <<>> THEN arg[1] ELSE HTTP_BACKOFF_TENTHS

-----------------------------------------------------------------------------
(* routes.py: the four proxy routes and the client method each calls *)

Routes == {"/raw/events", "/normalized/events", "/categories", "/sources"}

\* the path handed to _get by get_events / get_categories / get_sources
ClientPath(r) ==
    CASE r = "/raw/events"        -> "/events"
      [] r = "/normalized/events" -> "/events"
      [] r = "/categories"        -> "/categories"
      [] r = "/sources"           -> "/sources"

-----------------------------------------------------------------------------
(* client.py: EONETClient._get *)

NoErr == [exc |-> "None", status |-> 0, at |-> 0]
NoResult == [pending |-> TRUE]

\* upstream statuses an attempt can receive
OkStatuses == {200, 304}
ClientErrorStatuses == {400, 404, 499}
ServerErrorStatuses == {500, 599}
TooManyRequests == 429

\* bodies of a successful response that parse as JSON
JsonBodies ==
    {Obj([title |-> Str(<<"T">>),
          events |-> List(<<RawEvent(Num(1), Null, List(<<Wildfires>>), List(<<>>),
                                     List(<<Point>>))>>)]),
     Obj([title |-> Str(<<"T">>), events |-> List(<<Num(1)>>)]),
     Obj([title |-> Missing, events |-> Missing]),
     List(<<>>)}

\* network-library failures of session.get: the two the except clause names, and the
\* RequestException subclasses it does not name
CaughtNetworkErrors == {"Timeout", "ConnectionError"}
OtherNetworkErrors == {"TooManyRedirects", "ChunkedEncodingError"}

\* the exception an attempt raises inside the try block, for a response of that status:
\* the explicit 5xx check, then resp.raise_for_status()
StatusError(status, at) ==
    IF 500 <= status /\ status < 600 THEN [exc |-> "HTTPError", status |-> status, at |-> at]
    ELSE IF 400 <= status /\ status < 600 THEN [exc |-> "HTTPError", status |-> status, at |-> at]
    ELSE NoErr

\* variant: 400 < status for 400 <= status
NonRetryableOffByOne(e) ==
    e.exc = "HTTPError" /\ 400 < e.status /\ e.status < 500 /\ e.status # 429

\* isinstance(e, HTTPError) and e.response is not None and 400 <= status < 500 and status != 429
NonRetryable(e) ==
    e.exc = "HTTPError" /\ 400 <= e.status /\ e.status < 500 /\ e.status # 429

\* variant: range(1, self.retries)
InRangeOffByOne(a) == 1 <= a /\ a < retries

\* for attempt in range(1, self.retries + 1)
InRange(a) == 1 <= a /\ a < retries + 1

\* variant: attempt <= self.retries
SleepsAfterInclusive(a) == a <= retries

\* if attempt < self.retries: sleep, else: raise
SleepsAfter(a) == a < retries

\* variant: time.sleep(self.backoff)
SleepForConstant(a) == backoff

\* time.sleep(self.backoff * attempt)
SleepFor(a) == backoff * a

\* EONETClientError(f"EONET request failed ... at {url}") from cause
ClientError(msg, cause) ==
    [ok |-> FALSE, exc |-> "EONETClientError", msg |-> msg, path |-> ClientPath(route),
     cause |-> cause]

\* log entries: a GET that was issued, with what came of it, and a sleep that was taken
GetEntry(a, exc, status) == [ev |-> "get", n |-> a, exc |-> exc, status |-> status]
SleepEntry(d) == [ev |-> "sleep", n |-> d, exc |-> "None", status |-> 0]

\* the except clause of one attempt that failed with e
HandleFailure(e) ==
    /\ last_err' = e
    /\ IF NonRetryable(e)
       THEN /\ pc' = "done"
            /\ result' = ClientError("failed (status)", e)
            /\ log' = Append(log, GetEntry(attempt, e.exc, e.status))
            /\ attempt' = attempt
       ELSE IF SleepsAfter(attempt)
       THEN /\ pc' = "loop"
            /\ result' = result
            /\ log' = log \o <<GetEntry(attempt, e.exc, e.status),
                               SleepEntry(SleepFor(attempt))>>
            /\ attempt' = attempt + 1
       ELSE /\ pc' = "done"
            /\ result' = ClientError("failed after retries", e)
            /\ log' = Append(log, GetEntry(attempt, e.exc, e.status))
            /\ attempt' = attempt

\* an attempt whose response has a success status and a JSON body: return resp.json()
AttemptReturns ==
    /\ pc = "loop" /\ InRange(attempt)
    /\ \E status \in OkStatuses, body \in JsonBodies :
          /\ StatusError(status, attempt) = NoErr
          /\ result' = Ok(body)
          /\ log' = Append(log, GetEntry(attempt, "None", status))
    /\ pc' = "done"
    /\ UNCHANGED <<retries, backoff, route, attempt, last_err, response, payload, normalized>>

\* an attempt whose response has a success status and a body that is not JSON:
\* resp.json() raises JSONDecodeError, which the except clause does not name
AttemptBadJson ==
    /\ pc = "loop" /\ InRange(attempt)
    /\ \E status \in OkStatuses :
          /\ StatusError(status, attempt) = NoErr
          /\ log' = Append(log, GetEntry(attempt, "JSONDecodeError", status))
    /\ result' = Raise("JSONDecodeError")
    /\ pc' = "done"
    /\ UNCHANGED <<retries, backoff, route, attempt, last_err, response, payload, normalized>>

\* an attempt whose response has status >= 400
AttemptHttpError ==
    /\ pc = "loop" /\ InRange(attempt)
    /\ \E status \in ClientErrorStatuses \cup ServerErrorStatuses \cup {TooManyRequests} :
          /\ StatusError(status, attempt) # NoErr
          /\ HandleFailure(StatusError(status, attempt))
    /\ UNCHANGED <<retries, backoff, route, response, payload, normalized>>

\* an attempt where session.get raises Timeout or ConnectionError
AttemptNetworkError ==
    /\ pc = "loop" /\ InRange(attempt)
    /\ \E x \in CaughtNetworkErrors : HandleFailure([exc |-> x, status |-> 0, at |-> attempt])
    /\ UNCHANGED <<retries, backoff, route, response, payload, normalized>>

\* an attempt where session.get raises another RequestException: not caught
AttemptOtherError ==
    /\ pc = "loop" /\ InRange(attempt)
    /\ \E x \in OtherNetworkErrors :
          /\ result' = Raise(x)
          /\ log' = Append(log, GetEntry(attempt, x, 0))
    /\ pc' = "done"
    /\ UNCHANGED <<retries, backoff, route, attempt, last_err, response, payload, normalized>>

\* the loop ends without returning or raising: the raise after the loop
LoopFallsThrough ==
    /\ pc = "loop" /\ ~InRange(attempt)
    /\ result' = ClientError("failed unexpectedly", last_err)
    /\ pc' = "done"
    /\ UNCHANGED <<retries, backoff, route, attempt, last_err, log, response, payload, normalized>>

-----------------------------------------------------------------------------
(* routes.py: raw_events / normalized_events / categories / sources *)

NoResponse == [pending |-> TRUE]

\* jsonify(body), 200
Json200(body) == [code |-> 200, kind |-> "json", body |-> body]

\* jsonify({"error": "EONET_UPSTREAM_ERROR", "message": str(e)}), 502
Envelope502(message) ==
    [code |-> 502, kind |-> "json",
     body |-> [error |-> "EONET_UPSTREAM_ERROR", message |-> message]]

\* an exception no except clause of the handler names leaves the handler
Unhandled(exc) == [code |-> 500, kind |-> "unhandled", body |-> exc]

\* the handler of route r, given what the client call produced
RouteResponse(r, res, now) ==
    IF res.ok
    THEN IF r = "/normalized/events"
         THEN LET n == normalize_events(res.val, now)
              IN  IF n.ok THEN Json200(n.val) ELSE Unhandled(n.exc)
         ELSE Json200(res.val)
    ELSE IF res.exc = "EONETClientError" THEN Envelope502(res.msg)
    ELSE Unhandled(res.exc)

Respond ==
    /\ pc = "done"
    /\ \E now \in Clocks : response' = RouteResponse(route, result, now)
    /\ pc' = "responded"
    /\ UNCHANGED <<retries, backoff, route, attempt, last_err, log, result, payload, normalized>>

-----------------------------------------------------------------------------
(* Specification of one proxied request *)

NotCalled == [pending |-> TRUE]

Init ==
    /\ \E r \in RetriesArgs : retries = InitRetries(r)
    /\ \E b \in BackoffArgs : backoff = InitBackoff(b)
    /\ route \in Routes
    /\ pc = "loop"
    /\ attempt = 1
    /\ last_err = NoErr
    /\ log = <<>>
    /\ result = NoResult
    /\ response = NoResponse
    /\ payload = Null
    /\ normalized = NotCalled

Next ==
    \/ AttemptReturns
    \/ AttemptBadJson
    \/ AttemptHttpError
    \/ AttemptNetworkError
    \/ AttemptOtherError
    \/ LoopFallsThrough
    \/ Respond

Spec == Init /\ [][Next]_vars

-----------------------------------------------------------------------------
(* Specification of normalize_events as a pure function of its argument *)

NormInit ==
    /\ payload \in Payloads
    /\ normalized = NotCalled
    /\ retries = HTTP_RETRIES
    /\ backoff = HTTP_BACKOFF_TENTHS
    /\ route = "/normalized/events"
    /\ pc = "normalize"
    /\ attempt = 1
    /\ last_err = NoErr
    /\ log = <<>>
    /\ result = NoResult
    /\ response = NoResponse

Normalize ==
    /\ pc = "normalize"
    /\ normalized = NotCalled
    /\ \E now \in Clocks : normalized' = normalize_events(payload, now)
    /\ UNCHANGED <<retries, backoff, route, pc, attempt, last_err, log, result, response,
                   payload>>

NormNext == Normalize

NormSpec == NormInit /\ [][NormNext]_vars

-----------------------------------------------------------------------------
(* Properties of the client and the routes (specifications Spec and FairSpec) *)

IsGet(e) == e.ev = "get"
IsSleep(e) == e.ev = "sleep"
Gets == SelectSeq(log, IsGet)
Sleeps == SelectSeq(log, IsSleep)
Max(a, b) == IF a >= b THEN a ELSE b

\* _get has ended (returned or raised)
Ended == pc \in {"done", "responded"}

\* the outcome of a GET is a failure the retry policy calls retryable: 5xx, 429,
\* timeout, connection failure
RetryableOutcome(e) ==
    \/ e.exc \in {"Timeout", "ConnectionError"}
    \/ e.exc = "HTTPError" /\ (e.status \in 500..599 \/ e.status = 429)

\* the outcome of a GET is a 4xx other than 429
ClientErrorOutcome(e) ==
    e.exc = "HTTPError" /\ e.status \in 400..499 /\ e.status # 429

\* the failure of the GET logged as e
ErrOf(e) == [exc |-> e.exc, status |-> e.status, at |-> e.n]

\* C1: whatever the outcome of an upstream attempt, a client call that has ended either
\* returned parsed JSON or raised EONETClientError; no other exception type escapes.
C1_OnlyClientErrorEscapes ==
    Ended => (result.ok \/ result.exc = "EONETClientError")

\* C2: when an attempt receives a 4xx other than 429, the client raises EONETClientError
\* at that attempt: that GET is the last entry of the trace (no GET and no sleep after
\* it) whatever budget remains, and a 4xx on the first attempt leaves exactly one GET and
\* no sleep.
C2_ClientErrorAbortsAtOnce ==
    \A i \in 1..Len(log) :
        (IsGet(log[i]) /\ ClientErrorOutcome(log[i])) =>
            /\ i = Len(log)
            /\ Ended
            /\ result = ClientError("failed (status)", ErrOf(log[i]))
            /\ (log[i].n = 1 => (Len(Gets) = 1 /\ Len(Sleeps) = 0))

C2_Witness ==
    /\ retries = 3 /\ pc = "done" /\ Len(log) = 3
    /\ log[1].status = 500 /\ log[3].status = 404
    /\ result.exc = "EONETClientError"

\* C3: with retries = N >= 1, if every attempt fails retryably (5xx, 429, timeout,
\* connection failure in any mix), the client has made exactly N GETs when it raises,
\* what it raises is EONETClientError caused by the N-th attempt's failure, and while
\* fewer than N attempts have been made nothing has been raised.
C3_ExhaustionAfterN ==
    (retries >= 1 /\ \A i \in 1..Len(Gets) : RetryableOutcome(Gets[i])) =>
        /\ \A i \in 1..Len(Gets) : Gets[i].n = i
        /\ Len(Gets) <= retries
        /\ Len(Gets) < retries => (pc = "loop" /\ result = NoResult)
        /\ Ended => /\ Len(Gets) = retries
                    /\ result = ClientError("failed after retries", ErrOf(Gets[retries]))

C3_Witness ==
    /\ retries = 3 /\ pc = "done" /\ Len(Gets) = 3
    /\ Gets[1].status = 500 /\ Gets[2].status = 429 /\ Gets[3].exc = "Timeout"
    /\ result.exc = "EONETClientError" /\ result.cause.at = 3

\* C4: when the first k < N attempts fail retryably and attempt k+1 succeeds, the client
\* returns after exactly k sleeps of backoff*1, ..., backoff*k, the i-th sleep lying
\* between GET i and GET i+1; the trace ends with the successful GET; and in every
\* state no sleep follows the N-th attempt.
C4_LinearBackoffBetweenAttempts ==
    /\ \A i \in 1..Len(log) :
          IsSleep(log[i]) =>
             /\ i > 1 /\ IsGet(log[i - 1]) /\ RetryableOutcome(log[i - 1])
             /\ log[i - 1].n < retries
             /\ log[i].n = backoff * log[i - 1].n
             /\ (i < Len(log) => (IsGet(log[i + 1]) /\ log[i + 1].n = log[i - 1].n + 1))
    /\ (Ended /\ result.ok) =>
          LET k == Len(Gets) - 1
          IN  /\ k >= 0 /\ k < retries
              /\ Len(log) = 2 * k + 1
              /\ \A i \in 1..k : /\ log[2 * i - 1] = Gets[i]
                                 /\ Gets[i].n = i
                                 /\ RetryableOutcome(Gets[i])
                                 /\ log[2 * i] = SleepEntry(backoff * i)
              /\ Len(Sleeps) = k
              /\ log[Len(log)] = Gets[k + 1]
              /\ Gets[k + 1].exc = "None" /\ Gets[k + 1].n = k + 1

C4_Witness ==
    /\ retries = 3 /\ backoff = HTTP_BACKOFF_TENTHS /\ pc = "done" /\ result.ok
    /\ Len(log) = 5 /\ log[1].status = 500 /\ log[3].status = 500 /\ log[5].status = 200
    /\ Sleeps = <<SleepEntry(7), SleepEntry(14)>>

\* C5: every request to one of the four routes ends either in a 200 with a JSON body or
\* in a 502 with the JSON envelope {error: EONET_UPSTREAM_ERROR, message}; none ends in
\* an unhandled exception.
C5_Always200Or502 ==
    pc = "responded" =>
        /\ response.kind = "json"
        /\ response.code \in {200, 502}
        /\ response.code = 502 => response.body.error = "EONET_UPSTREAM_ERROR"

\* C10: for every configured retries value, 0 and negative values included, a client
\* request issues at most max(retries, 0) GETs and takes at most max(retries - 1, 0)
\* sleeps; with retries <= 0 it issues no GET and raises EONETClientError with no
\* underlying cause; and it terminates: no state of the loop is stuck, and every step
\* taken in the loop either ends the request or moves on to the next attempt, of which
\* there are at most max(retries, 0).
C10_Bounds ==
    /\ Len(Gets) <= Max(retries, 0)
    /\ Len(Sleeps) <= Max(retries - 1, 0)
    /\ attempt \in 1..(Max(retries, 0) + 1)
    /\ pc = "loop" => ENABLED Next
    /\ (retries <= 0 /\ Ended) =>
          /\ log = <<>>
          /\ ~result.ok /\ result.exc = "EONETClientError" /\ result.cause = NoErr

-----------------------------------------------------------------------------
(* Properties of normalize_events (specification NormSpec) *)

Called == normalized # NotCalled
Returned == Called /\ normalized.ok

\* the raw events the loop visits, when the payload is a mapping whose events is a list
RawEvents == Get(payload, "events", List(<<>>)).items

\* the payload is a mapping whose events is a sequence of event mappings
EventsAreMappings ==
    /\ payload.t = "map"
    /\ Get(payload, "events", List(<<>>)).t = "list"
    /\ \A i \in 1..Len(RawEvents) : RawEvents[i].t = "map"

\* C6: every normalized event has status "closed" if and only if its closed field is not
\* null, and status "open" otherwise, whatever the raw closed value was.
C6_ClosedIffStatusClosed ==
    Returned =>
        \A i \in 1..Len(normalized.val.events) :
            LET e == normalized.val.events[i]
            IN  /\ e.status \in {"open", "closed"}
                /\ e.status = "closed" <=> e.closed # Null

C6_Witness ==
    /\ Returned /\ EventsAreMappings /\ Len(RawEvents) = 2
    /\ "closed" \in DOMAIN RawEvents[1].m /\ RawEvents[1].m.closed = Str(<<>>)
    /\ normalized.val.events[1].status = "open"
    /\ "closed" \in DOMAIN RawEvents[2].m /\ RawEvents[2].m.closed = NotADate
    /\ normalized.val.events[2].status = "closed"

\* C7: given a payload that is a mapping, normalize_events never raises, whatever lies
\* beneath it.
C7_NeverRaisesOnMapping ==
    (Called /\ payload.t = "map") => normalized.ok

\* C8: for a payload whose events is a sequence of event mappings, whenever
\* normalize_events returns, the normalized events are as many as the raw events, the
\* i-th is the normalization of the i-th raw event, and count is that length.
C8_OrderAndCountPreserved ==
    (Returned /\ EventsAreMappings) =>
        /\ Len(normalized.val.events) = Len(RawEvents)
        /\ normalized.val.count = Len(RawEvents)
        /\ \A i \in 1..Len(RawEvents) :
              /\ NormalizedEvent(RawEvents[i]) = Ok(normalized.val.events[i])
              /\ normalized.val.events[i].id = PyStr(Get(RawEvents[i], "id", Str(<<>>)))

C8_Witness ==
    /\ Returned /\ EventsAreMappings /\ Len(RawEvents) = 2
    /\ normalized.val.count = 2
    /\ normalized.val.events[1].id = <<"EONET_2">>
    /\ normalized.val.events[2].id = <<"1">>

\* C9 as stated: every normalized event has a non-empty id.
C9_IdNonEmpty ==
    Returned => \A i \in 1..Len(normalized.val.events) : normalized.val.events[i].id # <<>>

\* C9 as amended: every normalized event has an id that is the string form of the raw
\* id; it is the empty string exactly when the raw event has no id key or its id is the
\* empty string, and non-empty otherwise.
C9_IdEmptyIffMissingOrEmpty ==
    (Returned /\ EventsAreMappings) =>
        \A i \in 1..Len(RawEvents) :
            LET ev == RawEvents[i]
                id == normalized.val.events[i].id
            IN  /\ id \in Seq({"None", "EONET_1", "EONET_2", "1"})
                /\ id = <<>> <=> ("id" \notin DOMAIN ev.m \/ ev.m.id = Str(<<>>))
                /\ ("id" \in DOMAIN ev.m /\ ev.m.id.t = "str") => id = ev.m.id.s

C9_Witness ==
    /\ Returned /\ EventsAreMappings /\ Len(RawEvents) = 2
    /\ "id" \notin DOMAIN RawEvents[1].m /\ normalized.val.events[1].id = <<>>
    /\ "id" \in DOMAIN RawEvents[2].m /\ RawEvents[2].m.id = Null
    /\ normalized.val.events[2].id = <<"None">>

=============================================================================
